---- MODULE Spec2Model ----
(***************************************************************************)
(* dirselect: a directory-picker component.  One Model value (types.go,    *)
(* dirselect.go) is driven by key events and by the results of the         *)
(* asynchronous readDir commands it issues.  The breadcrumb stack          *)
(* lineNumberStack and homeDirDepth are package-level variables.           *)
(*                                                                         *)
(* Paths are sequences of names below "/": "/home/u/proj" is               *)
(* <<"home", "u", "proj">>.                                                *)
(***************************************************************************)
EXTENDS Integers, Sequences, FiniteSets, Bags, TLC

\* ------------------------------------------------------------------ bounds

\* At most this many readDir commands are in flight at once.
MaxInflight == 2

\* explore() is not followed deeper than this many levels below homeDir.
MaxDepth == 1

\* The user of specification Spec selects at most this many directories.
MaxSelected == 2

\* Number of subdirectories of the wide directory /home/w.
WideCount == 11

\* ------------------------------------------------------- program constants

\* "FIXME: use const for magic number 10 here."
maxViewHeight == 10

\* The digits bound to keyMap.jump: "0" .. "9".
lastDigit == 9

\* ------------------------------------------------------------ path algebra

Min(a, b) == IF a < b THEN a ELSE b

\* filepath.Dir of a cleaned absolute path; Dir("/") = "/".
Dir(p) == IF Len(p) = 0 THEN p ELSE SubSeq(p, 1, Len(p) - 1)

\* filepath.Join(p, name): Join cleans the result, so ".." steps up.
Join(p, name) == IF name = ".." THEN Dir(p) ELSE Append(p, name)

\* len(strings.Split(path, "/")): "/home/u" gives ["", "home", "u"].
SplitLen(p) == IF Len(p) = 0 THEN 2 ELSE Len(p) + 1

\* slices.Index(s, v), 1-based; 0 stands for Go's -1.
Index(s, v) ==
    IF \E i \in 1..Len(s) : s[i] = v
    THEN CHOOSE i \in 1..Len(s) : s[i] = v /\ \A j \in 1..(i - 1) : s[j] /= v
    ELSE 0

\* Faulty variant of Delete: removes the last element, whatever pos is.
DeleteLast(s, pos) == SubSeq(s, 1, Len(s) - 1)

\* Faulty variant of Delete: removes the first element, whatever pos is.
DeleteFirst(s, pos) == Tail(s)

\* slices.Delete(s, pos, pos+1), pos 1-based.
Delete(s, pos) == SubSeq(s, 1, pos - 1) \o SubSeq(s, pos + 1, Len(s))

\* ------------------------------------------------------------- file system

HomeU == <<"home", "u">>
HomeW == <<"home", "w">>

WideNames ==
    <<"d01", "d02", "d03", "d04", "d05", "d06", "d07", "d08", "d09", "d10",
      "d11", "d12", "d13", "d14">>

Entry(n, d) == [name |-> n, isDir |-> d]

Proj == <<"home", "u", "proj">>

\* os.ReadDir(path): the directory entries sorted by name, files included.
DirEntries(p) ==
    CASE p = HomeU -> <<Entry("locked", TRUE), Entry("notes", FALSE),
                        Entry("proj", TRUE)>>
      [] p = Proj -> <<Entry("README", FALSE), Entry("src", TRUE)>>
      [] p = HomeW -> [i \in 1..WideCount |-> Entry(WideNames[i], TRUE)]
      [] OTHER -> <<>>

\* The directories os.ReadDir can read.  /home/u/locked exists but cannot be
\* read; any other path does not exist.
Readable(p) ==
    \/ p \in {HomeU, HomeW, Proj, Append(Proj, "src")}
    \/ Len(p) = 3 /\ SubSeq(p, 1, 2) = HomeW
         /\ \E i \in 1..WideCount : p[3] = WideNames[i]

IsDirEntry(e) == e.isDir

\* Faulty variant of ReadDirMsg: dirs starts empty, without the ".." entry.
ReadDirMsgNoSentinel(p) ==
    IF Readable(p)
    THEN [ok |-> TRUE,
          entries |->
              [i \in 1..Len(SelectSeq(DirEntries(p), IsDirEntry)) |->
                  SelectSeq(DirEntries(p), IsDirEntry)[i].name]]
    ELSE [ok |-> FALSE, entries |-> <<>>]

\* The closure returned by readDir (dirselect.go:356-369): an error, or the
\* names of the subdirectories behind the ".." entry.
ReadDirMsg(p) ==
    IF Readable(p)
    THEN [ok |-> TRUE,
          entries |-> <<"..">> \o
              [i \in 1..Len(SelectSeq(DirEntries(p), IsDirEntry)) |->
                  SelectSeq(DirEntries(p), IsDirEntry)[i].name]]
    ELSE [ok |-> FALSE, entries |-> <<>>]

\* ------------------------------------------------------------------- state

VARIABLES
    \* fields of Model (unnamed/part_001, dirselect.go)
    id,             \* Model.id, from nextID()
    homeDir,        \* Model.homeDir
    currentDir,     \* Model.currentDir
    dirListing,     \* Model.dirListing
    lineNumber,     \* Model.lineNumber
    viewHeight,     \* Model.viewHeight
    viewMin,        \* Model.viewMin
    viewMax,        \* Model.viewMax
    SelectedDirs,   \* Model.SelectedDirs
    \* package-level variables (dirselect.go:228-247, 286)
    lineNumberStack,
    quitting,
    \* the run time
    panic,          \* "none", or the panic that ended the program
    latest,         \* the readDir command issued last, while in flight (<= 1)
    stale,          \* bag of the readDir commands in flight issued before it
    \* observers: they record history and are read by no action guard
    fresh,          \* the result of the command issued last has been applied
    nav,            \* the frame before the navigation whose load is awaited
    rt,             \* progress of a Descend, load, Ascend, load round trip
    tog,            \* progress of two ToggleSelect events in a row
    last,           \* the navigation, sentinel toggle or removal handled last
    \* a second Model of the same process
    lastID,         \* package variable lastID (id.go)
    other           \* the second Model, once New has made it

modelVars == <<id, homeDir, currentDir, dirListing, lineNumber, viewHeight,
               viewMin, viewMax, SelectedDirs>>
frameVars == <<currentDir, dirListing, lineNumber, viewHeight, viewMin, viewMax>>
viewVars == <<viewHeight, viewMin, viewMax>>
cmdVars == <<latest, stale>>
vars == <<id, homeDir, currentDir, dirListing, lineNumber, viewHeight, viewMin,
          viewMax, SelectedDirs, lineNumberStack, quitting, panic, latest,
          stale, fresh, nav, rt, tog, last, lastID, other>>
otherVars == <<lastID, other>>

\* homeDirDepth = len(strings.Split(homeDir, "/")), set once by New.
homeDirDepth == SplitLen(homeDir)

\* lineNumberStack.depth()
depth == Len(lineNumberStack)

\* What the claims call the frame: location, listing, cursor, viewport and
\* breadcrumb depth.
Frame ==
    [currentDir |-> currentDir, dirListing |-> dirListing,
     lineNumber |-> lineNumber, viewMin |-> viewMin, viewMax |-> viewMax,
     depth |-> depth]

NoFrame ==
    [currentDir |-> <<>>, dirListing |-> <<>>, lineNumber |-> 0, viewMin |-> 0,
     viewMax |-> 0, depth |-> 0]

NoNav == [st |-> "none", frame |-> NoFrame]
NoRt == [phase |-> 0, dir |-> <<>>, idx |-> 0, name |-> ""]
NoTog == [n |-> 0, sel |-> <<>>]

\* No second Model yet.  Of a second Model the fields that its handlers
\* read together with the package variables are kept; cmd is its readDir
\* command in flight.
NoOther ==
    [made |-> FALSE, id |-> 0, currentDir |-> <<>>, dirListing |-> <<>>,
     lineNumber |-> 0, cmd |-> <<>>]
Navigations == {"back", "explore", "jump", "jumpToHome"}
NoLast == [op |-> "none", arg |-> <<>>, applied |-> FALSE, pos |-> 0]

\* The event op with its path argument, its load not applied yet.
Event(op, arg) == [op |-> op, arg |-> arg, applied |-> FALSE, pos |-> 0]

\* The toggle that has removed the path at position pos of the selection.
Removal(path, pos) ==
    [op |-> "remove", arg |-> path, applied |-> FALSE, pos |-> pos]

\* New() (dirselect.go:304-343) followed by the program start, which runs the
\* command of Model.Init (dirselect.go:396-398): readDir(currentDir).
InitAt(h) ==
    /\ id = 1
    /\ homeDir = h
    /\ currentDir = h
    /\ dirListing = <<>>
    /\ lineNumber = 0
    /\ viewHeight = 0
    /\ viewMin = 0
    /\ viewMax = 0
    /\ SelectedDirs = <<>>
    /\ lineNumberStack = <<>>
    /\ quitting = FALSE
    /\ panic = "none"
    /\ latest = <<[id |-> 1, path |-> h]>>
    /\ stale = EmptyBag
    /\ fresh = FALSE
    /\ nav = NoNav
    /\ rt = NoRt
    /\ tog = NoTog
    /\ last = NoLast
    /\ lastID = 1
    /\ other = NoOther

Init == InitAt(HomeU)

InitWide == InitAt(HomeW)

\* The program handles messages until it quits or panics.
Running == ~quitting /\ panic = "none"

\* --------------------------------------------------------------- commands

InFlight == BagCardinality(stale) + Len(latest)

CanIssue == InFlight < MaxInflight

\* return m, m.readDir(path): the command issued before is superseded.
readDir(path) ==
    /\ latest' = <<[id |-> id, path |-> path]>>
    /\ stale' = IF latest = <<>> THEN stale ELSE stale (+) SetToBag({latest[1]})
    /\ fresh' = FALSE

\* A Go run-time panic inside Update: the handler's changes to its copy of
\* the model are lost and the program ends, so that the results of the
\* commands in flight are never handled.
Panic(what) ==
    /\ panic' = what
    /\ UNCHANGED <<modelVars, lineNumberStack, quitting, fresh>>
    /\ latest' = <<>> /\ stale' = EmptyBag
    /\ nav' = NoNav /\ rt' = NoRt /\ tog' = NoTog /\ last' = NoLast
    /\ UNCHANGED otherVars

\* A handler that falls through to "return m, nil" with the model as it was;
\* the handler says what it leaves in last.
NoOp ==
    /\ UNCHANGED <<modelVars, lineNumberStack, quitting, panic, cmdVars, fresh>>
    /\ nav' = NoNav /\ rt' = NoRt /\ tog' = NoTog
    /\ UNCHANGED otherVars

\* --------------------------------------------------- breadcrumb stack

\* Faulty variant of push: saves line 0 instead of the cursor.
pushZero(s, i) == Append(s, 0)

push(s, i) == Append(s, i)

pop(s) == SubSeq(s, 1, Len(s) - 1)

top(s) == s[Len(s)]

\* Faulty variant of dummyStack: the new stack is left empty.
dummyStackEmpty(n) == <<>>

\* newStack() followed by n pushes of 0 (dirselect.go:460-465); a negative
\* n pushes nothing.
dummyStack(n) == IF n <= 0 THEN <<>> ELSE [i \in 1..n |-> 0]

\* ------------------------------------------------------ load completion

\* viewHeight = min(10, len(dirListing))
ViewHeightOf(entries) == Min(maxViewHeight, Len(entries))

\* Variant of the load completion without the id comparison of
\* dirselect.go:403: every readDirMsg is installed.
ApplyReadDirMsgAnyId(msg) ==
    /\ dirListing' = msg.entries
    /\ viewHeight' = ViewHeightOf(msg.entries)
    /\ viewMin' = 0
    /\ viewMax' = ViewHeightOf(msg.entries) - 1

\* case readDirMsg (dirselect.go:402-412)
ApplyReadDirMsg(msg) ==
    IF msg.id /= id
    THEN UNCHANGED <<dirListing, viewVars>>
    ELSE /\ dirListing' = msg.entries
         /\ viewHeight' = ViewHeightOf(msg.entries)
         /\ viewMin' = 0
         /\ viewMax' = ViewHeightOf(msg.entries) - 1

\* Faulty variant of ReadDirLatest: the handler returns the command that
\* loads the directory again.
ReadDirLatestReload ==
    /\ Running
    /\ latest /= <<>>
    /\ UNCHANGED <<id, homeDir, currentDir, lineNumber, SelectedDirs,
                   lineNumberStack, quitting, panic, stale, latest, otherVars>>
    /\ tog' = NoTog /\ nav' = NoNav /\ rt' = NoRt /\ last' = NoLast
    /\ fresh' = FALSE
    /\ LET res == ReadDirMsg(latest[1].path) IN
       IF res.ok
       THEN ApplyReadDirMsg([id |-> latest[1].id, entries |-> res.entries])
       ELSE UNCHANGED <<dirListing, viewVars>>

\* The command issued last completes and its message is handled.
ReadDirLatest ==
    /\ Running
    /\ latest /= <<>>
    /\ latest' = <<>>
    /\ UNCHANGED <<id, homeDir, currentDir, lineNumber, SelectedDirs,
                   lineNumberStack, quitting, panic, stale, otherVars>>
    /\ tog' = NoTog
    /\ LET res == ReadDirMsg(latest[1].path) IN
       IF res.ok
       THEN /\ ApplyReadDirMsg([id |-> latest[1].id, entries |-> res.entries])
            /\ fresh' = TRUE
            /\ nav' = NoNav
            /\ rt' = IF rt.phase \in {1, 3}
                     THEN [rt EXCEPT !.phase = rt.phase + 1]
                     ELSE NoRt
            /\ last' = IF last.op \in Navigations /\ ~last.applied
                       THEN [last EXCEPT !.applied = TRUE]
                       ELSE NoLast
       ELSE \* an error value: no case of Update matches it
            /\ UNCHANGED <<dirListing, viewVars, fresh>>
            /\ nav' = IF nav.st = "pending"
                      THEN [nav EXCEPT !.st = "failed"]
                      ELSE NoNav
            /\ rt' = NoRt
            /\ last' = NoLast

\* A superseded command completes and its message is handled.
ReadDirStale ==
    /\ Running
    /\ \E c \in BagToSet(stale) :
        /\ stale' = IF BagCardinality(stale) = 1
                    THEN EmptyBag
                    ELSE stale (-) SetToBag({c})
        /\ LET res == ReadDirMsg(c.path) IN
           IF res.ok
           THEN ApplyReadDirMsg([id |-> c.id, entries |-> res.entries])
           ELSE UNCHANGED <<dirListing, viewVars>>
    /\ UNCHANGED <<id, homeDir, currentDir, lineNumber, SelectedDirs,
                   lineNumberStack, quitting, panic, latest, fresh, otherVars>>
    /\ nav' = NoNav /\ rt' = NoRt /\ tog' = NoTog /\ last' = NoLast

\* ------------------------------------------------------------ key events

\* m.dirListing[m.lineNumber] is in range; outside it Go panics.
InRange == 0 <= lineNumber /\ lineNumber < Len(dirListing)

\* dirAtPoint (dirselect.go:378-380), 0-based lineNumber.
dirAtPoint == Join(currentDir, dirListing[lineNumber + 1])

\* The frame is the loaded listing of currentDir and no load is awaited.
Settled ==
    /\ fresh
    /\ latest = <<>>
    /\ stale = EmptyBag
    /\ dirListing = ReadDirMsg(currentDir).entries

\* back() (dirselect.go:383-388); restoreLineNumber panics on an empty stack.
back ==
    IF depth = 0
    THEN Panic("emptyStack")
    ELSE /\ currentDir' = Dir(currentDir)
         /\ lineNumber' = top(lineNumberStack)
         /\ lineNumberStack' = pop(lineNumberStack)
         /\ readDir(Dir(currentDir))
         /\ UNCHANGED <<id, homeDir, dirListing, viewVars, SelectedDirs,
                        quitting, panic, otherVars>>
         /\ nav' = [st |-> "pending", frame |-> Frame]
         /\ rt' = IF rt.phase = 2 THEN [rt EXCEPT !.phase = 3] ELSE NoRt
         /\ tog' = NoTog
         /\ last' = Event("back", currentDir)

\* explore() (dirselect.go:390-394) with saveLineNumber (289-292).
explore ==
    IF ~InRange
    THEN Panic("dirAtPoint")
    ELSE /\ currentDir' = dirAtPoint
         /\ lineNumberStack' = push(lineNumberStack, lineNumber)
         /\ lineNumber' = 0
         /\ readDir(dirAtPoint)
         /\ UNCHANGED <<id, homeDir, dirListing, viewVars, SelectedDirs,
                        quitting, panic, otherVars>>
         /\ nav' = [st |-> "pending", frame |-> Frame]
         /\ rt' = IF Settled
                  THEN [phase |-> 1, dir |-> currentDir, idx |-> lineNumber,
                        name |-> dirListing[lineNumber + 1]]
                  ELSE NoRt
         /\ tog' = NoTog
         /\ last' = Event("explore", currentDir)

\* Faulty variant of KeyBack: back() is called whatever the depth is.
KeyBackUnguarded ==
    /\ Running
    /\ CanIssue
    /\ back

\* case keyMap.back (dirselect.go:416-421)
KeyBack ==
    /\ Running
    /\ IF depth = 0
       THEN NoOp /\ last' = NoLast
       ELSE CanIssue /\ back

\* case keyMap.down (dirselect.go:423-432)
DownLine == Min(lineNumber + 1, Len(dirListing) - 1)

KeyDown ==
    /\ Running
    /\ lineNumber' = DownLine
    /\ IF DownLine > viewMax
       THEN viewMin' = viewMin + 1 /\ viewMax' = viewMax + 1
       ELSE UNCHANGED <<viewMin, viewMax>>
    /\ UNCHANGED <<id, homeDir, currentDir, dirListing, viewHeight,
                   SelectedDirs, lineNumberStack, quitting, panic, cmdVars,
                   fresh, otherVars>>
    /\ nav' = NoNav /\ rt' = NoRt /\ tog' = NoTog /\ last' = NoLast

\* case keyMap.up (dirselect.go:500-509)
UpLine == IF lineNumber - 1 < 0 THEN 0 ELSE lineNumber - 1

KeyUp ==
    /\ Running
    /\ lineNumber' = UpLine
    /\ IF UpLine < viewMin
       THEN viewMin' = viewMin - 1 /\ viewMax' = viewMax - 1
       ELSE UNCHANGED <<viewMin, viewMax>>
    /\ UNCHANGED <<id, homeDir, currentDir, dirListing, viewHeight,
                   SelectedDirs, lineNumberStack, quitting, panic, cmdVars,
                   fresh, otherVars>>
    /\ nav' = NoNav /\ rt' = NoRt /\ tog' = NoTog /\ last' = NoLast

\* Faulty variant of KeyExplore: the ".." entry is explored like any other
\* entry instead of being handed to back().
KeyExploreSentinel ==
    /\ Running
    /\ IF lineNumber = 0 /\ depth = 0
       THEN NoOp /\ last' = NoLast
       ELSE /\ CanIssue
            /\ Len(currentDir) - Len(homeDir) < MaxDepth
            /\ explore

\* The cursor and the window, as the cursor keys read and write them.
Cursor == [lineNumber |-> lineNumber, viewMin |-> viewMin, viewMax |-> viewMax]

\* What keyMap.down (dirselect.go:424-432) makes of cursor and window c in a
\* listing of n entries.
moveDown(c, n) ==
    LET line == Min(c.lineNumber + 1, n - 1) IN
    IF line > c.viewMax
    THEN [lineNumber |-> line, viewMin |-> c.viewMin + 1, viewMax |-> c.viewMax + 1]
    ELSE [c EXCEPT !.lineNumber = line]

\* What keyMap.up (dirselect.go:501-509) makes of cursor and window c.
moveUp(c) ==
    LET line == IF c.lineNumber - 1 < 0 THEN 0 ELSE c.lineNumber - 1 IN
    IF line < c.viewMin
    THEN [lineNumber |-> line, viewMin |-> c.viewMin - 1, viewMax |-> c.viewMax - 1]
    ELSE [c EXCEPT !.lineNumber = line]

\* k down keys, and k up keys, in a row.
RECURSIVE downs(_, _, _)
downs(c, n, k) == IF k <= 0 THEN c ELSE downs(moveDown(c, n), n, k - 1)

RECURSIVE ups(_, _)
ups(c, k) == IF k <= 0 THEN c ELSE ups(moveUp(c), k - 1)

\* case keyMap.explore (dirselect.go:434-443)
KeyExplore ==
    /\ Running
    /\ IF lineNumber = 0 /\ depth = 0
       THEN NoOp /\ last' = NoLast
       ELSE IF lineNumber = 0
            THEN CanIssue /\ back
            ELSE /\ CanIssue
                 /\ Len(currentDir) - Len(homeDir) < MaxDepth
                 /\ explore

\* Faulty variant of jumpDepth: counts the selection itself, not its parent.
jumpDepthOfSelection(selection) == SplitLen(selection) - homeDirDepth

\* The pushes of the dummy stack: totalDepth - homeDirDepth - 1.
jumpDepth(selection) == SplitLen(selection) - homeDirDepth - 1

\* Faulty variant of KeyJump: the selection jumped to is taken off
\* SelectedDirs.
KeyJumpConsume(digit) ==
    /\ Running
    /\ IF digit >= Len(SelectedDirs)
       THEN Panic("jumpIndex")
       ELSE /\ CanIssue
            /\ currentDir' = Dir(SelectedDirs[digit + 1])
            /\ lineNumberStack' = dummyStack(jumpDepth(SelectedDirs[digit + 1]))
            /\ readDir(Dir(SelectedDirs[digit + 1]))
            /\ SelectedDirs' = Delete(SelectedDirs, digit + 1)
            /\ UNCHANGED <<id, homeDir, dirListing, lineNumber, viewVars,
                           quitting, panic, otherVars>>
            /\ nav' = [st |-> "pending", frame |-> Frame]
            /\ rt' = NoRt
            /\ tog' = NoTog
            /\ last' = Event("jump", SelectedDirs[digit + 1])

\* case keyMap.jump (dirselect.go:445-470); digit is strconv.Atoi of the key.
KeyJump(digit) ==
    /\ Running
    /\ IF digit >= Len(SelectedDirs)
       THEN Panic("jumpIndex")
       ELSE /\ CanIssue
            /\ currentDir' = Dir(SelectedDirs[digit + 1])
            /\ lineNumberStack' = dummyStack(jumpDepth(SelectedDirs[digit + 1]))
            /\ readDir(Dir(SelectedDirs[digit + 1]))
            /\ UNCHANGED <<id, homeDir, dirListing, lineNumber, viewVars,
                           SelectedDirs, quitting, panic, otherVars>>
            /\ nav' = [st |-> "pending", frame |-> Frame]
            /\ rt' = NoRt
            /\ tog' = NoTog
            /\ last' = Event("jump", SelectedDirs[digit + 1])

\* Faulty variant of KeyJumpToHome: lineNumberStack.reset() is left out.
KeyJumpToHomeKeepStack ==
    /\ Running
    /\ CanIssue
    /\ currentDir' = homeDir
    /\ lineNumber' = 0
    /\ readDir(homeDir)
    /\ UNCHANGED <<id, homeDir, dirListing, viewVars, SelectedDirs,
                   lineNumberStack, quitting, panic, otherVars>>
    /\ nav' = [st |-> "pending", frame |-> Frame]
    /\ rt' = NoRt
    /\ tog' = NoTog
    /\ last' = Event("jumpToHome", currentDir)

\* case keyMap.jumpToHome (dirselect.go:472-477)
KeyJumpToHome ==
    /\ Running
    /\ CanIssue
    /\ currentDir' = homeDir
    /\ lineNumber' = 0
    /\ lineNumberStack' = <<>>
    /\ readDir(homeDir)
    /\ UNCHANGED <<id, homeDir, dirListing, viewVars, SelectedDirs, quitting,
                   panic, otherVars>>
    /\ nav' = [st |-> "pending", frame |-> Frame]
    /\ rt' = NoRt
    /\ tog' = NoTog
    /\ last' = Event("jumpToHome", currentDir)

\* Faulty variant of toggle: a new selection goes to the front.
togglePrepend(sel, dir) ==
    IF Index(sel, dir) /= 0
    THEN Delete(sel, Index(sel, dir))
    ELSE <<dir>> \o sel

\* The toggle of dir in the selection (dirselect.go:492-498).
toggle(sel, dir) ==
    IF Index(sel, dir) /= 0
    THEN Delete(sel, Index(sel, dir))
    ELSE Append(sel, dir)

\* Faulty variant of KeyToggleSelect: the ".." entry is toggled like any
\* other entry.
KeyToggleSelectSentinel(limit) ==
    /\ Running
    /\ IF ~InRange
       THEN Panic("dirAtPoint")
       ELSE /\ Index(SelectedDirs, dirAtPoint) /= 0
               \/ Len(SelectedDirs) < limit
            /\ SelectedDirs' = toggle(SelectedDirs, dirAtPoint)
            /\ UNCHANGED <<id, homeDir, frameVars, lineNumberStack,
                           quitting, panic, cmdVars, fresh, otherVars>>
            /\ nav' = NoNav
            /\ rt' = NoRt
            /\ tog' = NoTog
            /\ last' = IF lineNumber = 0
                       THEN Event("toggleSelect", currentDir)
                       ELSE NoLast

\* case keyMap.toggleSelect (dirselect.go:479-498).  limit bounds how many
\* directories the user of the specification selects.
KeyToggleSelect(limit) ==
    /\ Running
    /\ IF lineNumber = 0
       THEN NoOp /\ last' = Event("toggleSelect", currentDir)
       ELSE IF ~InRange
            THEN Panic("dirAtPoint")
            ELSE /\ Index(SelectedDirs, dirAtPoint) /= 0
                    \/ Len(SelectedDirs) < limit
                 /\ SelectedDirs' = toggle(SelectedDirs, dirAtPoint)
                 /\ UNCHANGED <<id, homeDir, frameVars, lineNumberStack,
                                quitting, panic, cmdVars, fresh, otherVars>>
                 /\ nav' = NoNav
                 /\ rt' = NoRt
                 /\ tog' = IF tog.n = 1
                           THEN [tog EXCEPT !.n = 2]
                           ELSE IF Index(SelectedDirs, dirAtPoint) = 0
                                THEN [n |-> 1, sel |-> SelectedDirs]
                                ELSE NoTog
                 /\ last' = IF Index(SelectedDirs, dirAtPoint) /= 0
                            THEN Removal(dirAtPoint, Index(SelectedDirs, dirAtPoint))
                            ELSE NoLast

\* case keyMap.quit (dirselect.go:511-514): tea.Quit ends the program with m
\* as its final model; the results of the commands in flight are never
\* handled.
KeyQuit ==
    /\ Running
    /\ quitting' = TRUE
    /\ UNCHANGED <<modelVars, lineNumberStack, panic, fresh, otherVars>>
    /\ latest' = <<>> /\ stale' = EmptyBag
    /\ nav' = NoNav /\ rt' = NoRt /\ tog' = NoTog /\ last' = NoLast

\* --------------------------------------------------------- a second Model

\* nextID() (id.go:7-9): atomic.AddInt64(&lastID, 1)
nextID == lastID + 1

\* What an event of the second Model leaves alone in any case: the fields of
\* the first Model and its commands.  The observers start afresh.
OtherEvent ==
    /\ UNCHANGED <<modelVars, quitting, panic, cmdVars, fresh>>
    /\ nav' = NoNav /\ rt' = NoRt /\ tog' = NoTog /\ last' = NoLast

\* A second call of New() (dirselect.go:304-343) in the same process, and
\* the command of the new Model's Init.  homeDirDepth is assigned the value
\* it has.
NewOther ==
    /\ Running
    /\ ~other.made
    /\ lastID' = nextID
    /\ other' = [made |-> TRUE, id |-> nextID, currentDir |-> homeDir,
                 dirListing |-> <<>>, lineNumber |-> 0, cmd |-> <<homeDir>>]
    /\ UNCHANGED lineNumberStack
    /\ OtherEvent

\* The readDir command of the second Model completes.  The program hands
\* the message to both Models: the first one handles it as case readDirMsg
\* (dirselect.go:402-412), the second one installs it.  The observers of
\* the first Model are left as they are.
ReadDirOther ==
    /\ Running
    /\ other.made
    /\ other.cmd /= <<>>
    /\ LET res == ReadDirMsg(other.cmd[1]) IN
        /\ IF res.ok
           THEN ApplyReadDirMsg([id |-> other.id, entries |-> res.entries])
           ELSE UNCHANGED <<dirListing, viewVars>>
        /\ other' = [other EXCEPT !.cmd = <<>>,
                                  !.dirListing = IF res.ok THEN res.entries ELSE @]
    /\ UNCHANGED <<id, homeDir, currentDir, lineNumber, SelectedDirs,
                   lineNumberStack, quitting, panic, cmdVars, fresh, lastID,
                   nav, rt, tog, last>>

\* back() of the second Model (dirselect.go:383-388) on the package's stack.
otherBack ==
    /\ other' = [other EXCEPT !.currentDir = Dir(other.currentDir),
                              !.lineNumber = top(lineNumberStack),
                              !.cmd = <<Dir(other.currentDir)>>]
    /\ lineNumberStack' = pop(lineNumberStack)
    /\ UNCHANGED lastID
    /\ OtherEvent

\* explore() of the second Model (dirselect.go:390-394).
otherExplore ==
    IF other.lineNumber < 0 \/ other.lineNumber >= Len(other.dirListing)
    THEN Panic("dirAtPoint")
    ELSE /\ other' = [other EXCEPT
                        !.currentDir = Join(other.currentDir,
                                            other.dirListing[other.lineNumber + 1]),
                        !.lineNumber = 0,
                        !.cmd = <<Join(other.currentDir,
                                       other.dirListing[other.lineNumber + 1])>>]
         /\ lineNumberStack' = push(lineNumberStack, other.lineNumber)
         /\ UNCHANGED lastID
         /\ OtherEvent

\* The second Model handles a key without effect.
otherNoOp == UNCHANGED <<lineNumberStack, otherVars>> /\ OtherEvent

\* The user of the second Model waits for its load before the next key.
OtherIdle == Running /\ other.made /\ other.cmd = <<>>

\* case keyMap.down (dirselect.go:423-432) of the second Model.
OtherKeyDown ==
    /\ OtherIdle
    /\ other' = [other EXCEPT
                    !.lineNumber = Min(other.lineNumber + 1,
                                       Len(other.dirListing) - 1)]
    /\ UNCHANGED <<lineNumberStack, lastID>>
    /\ OtherEvent

\* case keyMap.back (dirselect.go:416-421) of the second Model.
OtherKeyBack ==
    /\ OtherIdle
    /\ IF depth = 0 THEN otherNoOp ELSE otherBack

\* case keyMap.explore (dirselect.go:434-443) of the second Model.
OtherKeyExplore ==
    /\ OtherIdle
    /\ IF other.lineNumber = 0 /\ depth = 0
       THEN otherNoOp
       ELSE IF other.lineNumber = 0
            THEN otherBack
            ELSE /\ Len(other.currentDir) - Len(homeDir) < MaxDepth
                 /\ otherExplore

\* --------------------------------------------------------- specifications

Digits == 0..lastDigit

\* One Model in /home/u and every key.  The user toggles the entries of
\* settled frames, at most MaxSelected of them at a time.
Next ==
    \/ ReadDirLatest
    \/ ReadDirStale
    \/ KeyBack
    \/ KeyDown
    \/ KeyUp
    \/ KeyExplore
    \/ \E digit \in Digits : KeyJump(digit)
    \/ KeyJumpToHome
    \/ Settled /\ KeyToggleSelect(MaxSelected)
    \/ KeyQuit

Spec == Init /\ [][Next]_vars

\* One Model in the wide directory /home/w; the user walks down the listing
\* and toggles entries on the way.
NextWide ==
    \/ ReadDirLatest
    \/ KeyDown
    \/ KeyToggleSelect(WideCount)

SpecWide == InitWide /\ [][NextWide]_vars

\* One Model in the wide directory /home/w; the user moves the cursor up and
\* down, enters directories from settled frames and leaves them at any
\* time, and selects nothing.
NextBrowse ==
    \/ ReadDirLatest
    \/ ReadDirStale
    \/ KeyDown
    \/ KeyUp
    \/ Settled /\ KeyExplore
    \/ KeyBack

SpecBrowse == InitWide /\ [][NextBrowse]_vars

\* One Model in /home/u; the user goes in and out of directories, moves the
\* cursor down and toggles entries without waiting for the loads.
NextEager ==
    \/ ReadDirLatest
    \/ ReadDirStale
    \/ KeyDown
    \/ KeyExplore
    \/ KeyBack
    \/ KeyToggleSelect(MaxSelected)

SpecEager == Init /\ [][NextEager]_vars

\* Two Models in /home/u, made by New in the same process and driven by
\* their own keys; the user of the first one enters directories from
\* settled frames and selects nothing.
NextTwo ==
    \/ ReadDirLatest
    \/ ReadDirStale
    \/ KeyDown
    \/ Settled /\ KeyExplore
    \/ KeyBack
    \/ NewOther
    \/ ReadDirOther
    \/ OtherKeyDown
    \/ OtherKeyExplore
    \/ OtherKeyBack

SpecTwo == Init /\ [][NextTwo]_vars

\* A key event is handled.
KeyEvent ==
    \/ KeyBack
    \/ KeyDown
    \/ KeyUp
    \/ KeyExplore
    \/ \E digit \in Digits : KeyJump(digit)
    \/ KeyJumpToHome
    \/ KeyToggleSelect(MaxSelected)
    \/ KeyQuit

\* One Model in /home/u; the user moves the cursor, goes in and out of
\* directories and toggles the entries of settled frames.
NextLive ==
    \/ ReadDirLatest
    \/ ReadDirStale
    \/ KeyBack
    \/ KeyDown
    \/ KeyUp
    \/ KeyExplore
    \/ Settled /\ KeyToggleSelect(MaxSelected)

\* The scheduling of the Bubble Tea program: a command that was issued runs
\* in its own goroutine and its result is handled in the end.
SpecLive ==
    /\ Init /\ [][NextLive]_vars
    /\ WF_vars(ReadDirLatest)
    /\ WF_vars(ReadDirStale)

\* ------------------------------------------------------------------ claims

\* p is root or lies below it.
AtOrBelow(p, root) ==
    Len(p) >= Len(root) /\ SubSeq(p, 1, Len(root)) = root

ProperAncestor(p, root) == Len(p) < Len(root) /\ AtOrBelow(root, p)

\* The paths of the readDir commands issued and not yet handled.
Requested == {c.path : c \in BagToSet(stale)} \cup {latest[i].path : i \in 1..Len(latest)}

\* C1 (root boundary): every load request is for homeDir or for a path below
\* it, currentDir is never a proper ancestor of homeDir, and the back key
\* pressed in homeDir changes nothing and issues no load.
C1_RootBoundary ==
    /\ [](/\ \A p \in Requested : AtOrBelow(p, homeDir)
          /\ ~ProperAncestor(currentDir, homeDir))
    /\ [][KeyBack /\ currentDir = homeDir
            => UNCHANGED <<modelVars, lineNumberStack, latest, stale>>]_vars

\* A navigation from below homeDir has requested homeDir again.
C1_Witness ==
    /\ nav.st = "pending"
    /\ nav.frame.currentDir /= homeDir
    /\ latest /= <<>> /\ latest[1].path = homeDir
    /\ SelectedDirs /= <<>>

\* C2 (viewport invariant): viewMin <= lineNumber <= viewMax and the window
\* is at most maxViewHeight lines high, in every state.
C2_Viewport ==
    /\ viewMin <= lineNumber
    /\ lineNumber <= viewMax
    /\ viewMax - viewMin + 1 <= maxViewHeight

\* C3 (cursor invariant): 0 <= lineNumber < len(dirListing) in every state.
C3_CursorInRange == 0 <= lineNumber /\ lineNumber < Len(dirListing)

\* C4 (restore round trip): Descend from index i > 0 of a settled frame, its
\* load, Ascend and its load leave currentDir as it was and the cursor at
\* index i, on the entry that was entered.
C4_RoundTrip ==
    rt.phase = 4 =>
        /\ currentDir = rt.dir
        /\ lineNumber = rt.idx
        /\ rt.idx > 0
        /\ dirListing[lineNumber + 1] = rt.name

\* A round trip through the entry at index 2 has completed.
C4_Witness == rt.phase = 4 /\ rt.idx = 2 /\ rt.dir = homeDir

\* C5 (staleness): once the result of the load requested last has been
\* applied, dirListing is the listing of currentDir: a result of an earlier
\* request that arrives later is discarded.
C5_Staleness == fresh => dirListing = ReadDirMsg(currentDir).entries

\* C6 (load failure recovery): after the load requested by a navigation has
\* failed, currentDir, dirListing, cursor, viewport and breadcrumb depth are
\* those of the frame before the navigation.
C6_FailureRestores == nav.st = "failed" => Frame = nav.frame

\* The capacity of the selection: one entry per jump digit.
maxSelections == lastDigit + 1

\* C7 (capacity bound): len(SelectedDirs) <= 10 in every state.
C7_Capacity == Len(SelectedDirs) <= maxSelections

\* C8 (toggle idempotence): two toggles in a row of a path that was not
\* selected leave SelectedDirs as it was, in content and order.
C8_ToggleTwice == tog.n = 2 => SelectedDirs = tog.sel

\* The path was toggled twice while another path stayed selected.
C8_Witness == tog.n = 2 /\ tog.sel /= <<>>

NoDuplicates(sel) ==
    \A i, j \in 1..Len(sel) : sel[i] = sel[j] => i = j

\* C9 (selection set shape): SelectedDirs never holds a path twice; a step
\* leaves it as it is, appends a path that is not in it, or removes one path
\* and keeps the others in their order, so that its order is the order of
\* the last additions; quitting leaves it to the final model as it is.
C9_SelectionShape ==
    /\ []NoDuplicates(SelectedDirs)
    /\ [][\/ SelectedDirs' = SelectedDirs
          \/ /\ ~quitting'
             /\ \E k \in 1..Len(SelectedDirs') :
                   /\ k = Len(SelectedDirs')
                   /\ SubSeq(SelectedDirs', 1, k - 1) = SelectedDirs
                   /\ Index(SelectedDirs, SelectedDirs'[k]) = 0
          \/ /\ ~quitting'
             /\ \E k \in 1..Len(SelectedDirs) :
                   SelectedDirs' = Delete(SelectedDirs, k)]_vars

\* The session ended with two selections, made against the listing order.
C9_Witness ==
    /\ quitting
    /\ Len(SelectedDirs) = 2
    /\ SelectedDirs[1] = Append(HomeU, "proj")
    /\ SelectedDirs[2] = Append(HomeU, "locked")

\* C10 (out-of-range jump): a jump key whose digit is not an index of
\* SelectedDirs changes nothing, issues no load and does not panic.
C10_OutOfRangeJump ==
    [][\A digit \in Digits :
          KeyJump(digit) /\ digit >= Len(SelectedDirs)
              => UNCHANGED <<modelVars, lineNumberStack, latest, stale, panic>>]_vars

\* filepath.Base of a path below "/".
Base(p) == p[Len(p)]

\* C11 (jump target): a jump to a selection requests the load of the
\* selection's parent directory and makes it currentDir; once that load has
\* been applied the cursor is on the entry named after the selection.
C11_JumpTarget ==
    last.op = "jump" =>
        /\ currentDir = Dir(last.arg)
        /\ IF last.applied
           THEN InRange /\ dirListing[lineNumber + 1] = Base(last.arg)
           ELSE latest = <<[id |-> id, path |-> Dir(last.arg)]>>

\* C12 (Descend on the sentinel is Ascend): with the cursor at index 0 the
\* explore key takes exactly the steps of the back key, next state and load
\* request alike; in homeDir both change nothing and issue no load; with the
\* cursor on an entry at index i > 0 the explore key requests the load of
\* join(currentDir, dirListing[i]) and puts the cursor at 0.
C12_SentinelDescend ==
    [][/\ lineNumber = 0 => (KeyExplore <=> KeyBack)
       /\ (lineNumber = 0 /\ currentDir = homeDir /\ (KeyExplore \/ KeyBack))
             => UNCHANGED <<modelVars, lineNumberStack, latest, stale>>
       /\ (lineNumber > 0 /\ InRange /\ KeyExplore)
             => /\ latest' = <<[id |-> id,
                                path |-> Join(currentDir, dirListing[lineNumber + 1])]>>
                /\ currentDir' = Join(currentDir, dirListing[lineNumber + 1])
                /\ lineNumber' = 0]_vars

\* The explore key was pressed on the ".." entry of a directory below
\* homeDir and has requested the parent directory.
C12_Witness ==
    /\ last.op = "back"
    /\ ~last.applied
    /\ nav.frame.lineNumber = 0
    /\ nav.frame.currentDir /= homeDir
    /\ latest /= <<>> /\ latest[1].path = Dir(nav.frame.currentDir)

\* C13 (Ascend lands on the directory just left): after an Ascend from a
\* directory D below homeDir, however D was reached, and the load of the
\* parent, the cursor is on the entry named basename(D), if the parent's
\* listing has that entry.
C13_AscendLands ==
    (last.op = "back" /\ last.applied /\ Index(dirListing, Base(last.arg)) /= 0)
        => /\ currentDir = Dir(last.arg)
           /\ InRange
           /\ dirListing[lineNumber + 1] = Base(last.arg)

\* C14 (the sentinel is not selectable): a toggleSelect key with the cursor
\* at index 0 leaves SelectedDirs as it is; every path a step adds to
\* SelectedDirs is currentDir joined with the name under a cursor at an
\* index > 0, a name that is not "..", so that every selected path lies
\* strictly below homeDir.
C14_SentinelNotSelectable ==
    /\ [](\A i \in 1..Len(SelectedDirs) :
             /\ AtOrBelow(SelectedDirs[i], homeDir)
             /\ SelectedDirs[i] /= homeDir)
    /\ [][/\ (lineNumber = 0 /\ KeyToggleSelect(MaxSelected))
                => SelectedDirs' = SelectedDirs
          /\ \A i \in 1..Len(SelectedDirs') :
                Index(SelectedDirs, SelectedDirs'[i]) = 0
                    => /\ lineNumber > 0
                       /\ dirListing[lineNumber + 1] /= ".."
                       /\ SelectedDirs'[i] = Append(currentDir, dirListing[lineNumber + 1])]_vars

\* The toggleSelect key was pressed on the ".." entry of a directory below
\* homeDir while a directory was selected.
C14_Witness ==
    /\ last.op = "toggleSelect"
    /\ lineNumber = 0
    /\ last.arg /= homeDir
    /\ SelectedDirs /= <<>>

\* C15 (JumpHome): the jumpToHome key sets currentDir to homeDir, the cursor
\* to 0 and the breadcrumb depth to 0 and requests the load of homeDir; a
\* back key handled right after it changes nothing and issues no load.
C15_JumpHome ==
    [][/\ KeyJumpToHome
            => /\ currentDir' = homeDir
               /\ lineNumber' = 0
               /\ depth' = 0
               /\ latest' = <<[id |-> id, path |-> homeDir]>>
       /\ (last.op = "jumpToHome" /\ ~last.applied /\ KeyBack)
            => UNCHANGED <<modelVars, lineNumberStack, latest, stale>>]_vars

\* The jumpToHome key was pressed below homeDir with the cursor off the
\* first line.
C15_Witness ==
    /\ last.op = "jumpToHome"
    /\ ~last.applied
    /\ last.arg /= homeDir
    /\ nav.frame.depth > 0
    /\ nav.frame.lineNumber > 0
    /\ currentDir = homeDir /\ lineNumber = 0 /\ depth = 0

\* Go's n / 2, which truncates toward zero.
Half(n) == IF n >= 0 THEN n \div 2 ELSE -((-n) \div 2)

\* C16 (midpoint recentering): a down key moves the window down by one line
\* exactly when viewMax < len(dirListing) - 1 and the advanced cursor is
\* beyond (viewMin + viewMax) / 2; an up key moves it up by one line exactly
\* when viewMin > 0 and the cursor is before (viewMin + viewMax) / 2.
C16_Midpoint ==
    [][/\ KeyDown =>
            IF /\ viewMax < Len(dirListing) - 1
               /\ lineNumber' > Half(viewMin + viewMax)
            THEN viewMin' = viewMin + 1 /\ viewMax' = viewMax + 1
            ELSE UNCHANGED <<viewMin, viewMax>>
       /\ KeyUp =>
            IF /\ viewMin > 0
               /\ lineNumber' < Half(viewMin + viewMax)
            THEN viewMin' = viewMin - 1 /\ viewMax' = viewMax - 1
            ELSE UNCHANGED <<viewMin, viewMax>>]_vars

\* The step installs the listing of path as the claim describes it: the
\* cursor is restored when the load was requested by an Ascend or a jump
\* handled just before and the listing has the entry named after the
\* directory left or the selection.
Installed(path) ==
    /\ dirListing' = ReadDirMsg(path).entries
    /\ viewMin' = 0
    /\ viewMax' = Min(maxViewHeight, Len(ReadDirMsg(path).entries)) - 1
    /\ \/ lineNumber' = 0
       \/ /\ last.op \in {"back", "jump"}
          /\ ~last.applied
          /\ Index(dirListing', Base(last.arg)) /= 0
          /\ lineNumber' = Index(dirListing', Base(last.arg)) - 1

\* C17 (load completion installs the frame): the step that applies a load
\* result makes dirListing the loaded entries, viewMin 0 and viewMax
\* min(10, len(entries)) - 1, and leaves the cursor at 0 or on the
\* remembered entry.
C17_LoadInstalls ==
    [][/\ (ReadDirLatest /\ ReadDirMsg(latest[1].path).ok)
            => Installed(latest[1].path)
       /\ ReadDirStale
            => \E c \in BagToSet(stale) :
                  /\ stale' = IF BagCardinality(stale) = 1
                              THEN EmptyBag
                              ELSE stale (-) SetToBag({c})
                  /\ ReadDirMsg(c.path).ok => Installed(c.path)]_vars

\* entries starts with ".." and holds it nowhere else.
SentinelFirst(entries) ==
    /\ Len(entries) >= 1
    /\ entries[1] = ".."
    /\ \A i \in 2..Len(entries) : entries[i] /= ".."

\* C18 (sentinel first): every listing a load completion installs has ".."
\* as its first entry and nowhere else, so it is never empty; this holds for
\* homeDir and for a directory without subdirectories too.
C18_SentinelFirst ==
    /\ [](fresh => SentinelFirst(dirListing))
    /\ [][dirListing' /= dirListing => SentinelFirst(dirListing')]_vars

\* The listing of a directory without subdirectories has been installed.
C18_Witness ==
    /\ fresh
    /\ currentDir /= homeDir
    /\ DirEntries(currentDir) = <<>>
    /\ dirListing = <<"..">>

\* C19 (cursor visible after Ascend): once the load requested by an Ascend
\* has been applied, the restored cursor lies inside the window, also when
\* it was restored to an index >= 10.
C19_VisibleAfterAscend ==
    (last.op = "back" /\ last.applied)
        => viewMin <= lineNumber /\ lineNumber <= viewMax

\* C20 (frame consistency under interleaving): whenever the explore key
\* builds its target join(currentDir, dirListing[lineNumber]), dirListing is
\* the listing loaded for currentDir, so that the target is never the new
\* currentDir joined with a name of the previous directory's listing.
C20_FrameConsistency ==
    [][(lineNumber > 0 /\ InRange /\ KeyExplore)
          => dirListing = ReadDirMsg(currentDir).entries]_vars

\* p is a directory that the listing of its parent directory shows.
RealEntry(p) ==
    /\ Len(p) >= 1
    /\ ReadDirMsg(Dir(p)).ok
    /\ \E k \in 2..Len(ReadDirMsg(Dir(p)).entries) :
          ReadDirMsg(Dir(p)).entries[k] = Base(p)

\* C21 (selected paths are real entries): every path in SelectedDirs is
\* join(D, n) for an entry n other than ".." of the listing loaded for D
\* itself, whatever the interleaving of keys and load completions.
C21_RealEntries == \A i \in 1..Len(SelectedDirs) : RealEntry(SelectedDirs[i])

\* A key handled by the second Model.
OtherKey == OtherKeyDown \/ OtherKeyExplore \/ OtherKeyBack

\* C22 (model independence): an event handled by the second Model changes
\* nothing of what the handlers and View of the first Model read, its
\* fields, the breadcrumb stack and the quitting flag, so that the first
\* Model's response to its next key is the same with and without that event.
C22_Independence ==
    [][(NewOther \/ OtherKey)
          => UNCHANGED <<modelVars, lineNumberStack, quitting>>]_vars

C24_Quiescence ==
    /\ [][(ReadDirLatest \/ ReadDirStale \/ KeyDown \/ KeyUp
             \/ KeyToggleSelect(MaxSelected))
            => /\ InFlight' <= InFlight
               /\ \A c \in BagToSet(stale') : BagIn(c, stale) \/ <<c>> = latest
               /\ latest' = <<>> \/ latest' = latest]_vars
    /\ [][(ReadDirLatest \/ ReadDirStale) => InFlight' = InFlight - 1]_vars
    /\ ([]<><<KeyEvent>>_vars \/ <>[](InFlight = 0))

\* The load requested by a navigation has failed, its result has been
\* handled and no load is in flight.
C24_Witness ==
    /\ InFlight = 0
    /\ nav.st = "failed"
    /\ ~fresh
    /\ Running

\* C25 (no pop of an empty breadcrumb stack): with one Model,
\* restoreLineNumber is called with a stack of depth >= 1 only, so that its
\* panic on ErrEmptyStack is never reached.
C25_NoEmptyPop == panic /= "emptyStack"

\* restoreLineNumber has popped the last line of the stack.
C25_Witness ==
    /\ last.op = "back"
    /\ nav.frame.depth = 1
    /\ depth = 0
    /\ lineNumber > 0
    /\ panic = "none"

C27_OnlyToggle ==
    [][/\ SelectedDirs' /= SelectedDirs
            => /\ KeyToggleSelect(MaxSelected)
               /\ ~(\/ ReadDirLatest \/ ReadDirStale \/ KeyBack \/ KeyDown
                    \/ KeyUp \/ KeyExplore \/ KeyJumpToHome \/ KeyQuit
                    \/ \E digit \in Digits : KeyJump(digit))
       /\ KeyToggleSelect(MaxSelected)
            => /\ UNCHANGED <<frameVars, lineNumberStack>>
               /\ Requested' \subseteq Requested
               /\ InFlight' <= InFlight]_vars

\* A toggleSelect key has added an entry of a directory below homeDir
\* while another path was selected.
C27_Witness ==
    /\ tog.n = 1
    /\ tog.sel /= <<>>
    /\ currentDir /= homeDir
    /\ lineNumber > 0
    /\ Len(SelectedDirs) = 2

\* C28 (saturation of repeated moves): on a loaded frame with n entries, n
\* down keys in a row leave the cursor at n - 1 with viewMax = n - 1 and n up
\* keys in a row leave it at 0 with viewMin = 0; a down key at n - 1 and an
\* up key at 0 change nothing.  The first two lines tie moveDown and moveUp
\* to the steps of the keys.
C28_Saturation ==
    /\ [][KeyDown => Cursor' = moveDown(Cursor, Len(dirListing))]_vars
    /\ [][KeyUp => Cursor' = moveUp(Cursor)]_vars
    /\ [](Settled =>
            /\ downs(Cursor, Len(dirListing), Len(dirListing)).lineNumber
                  = Len(dirListing) - 1
            /\ downs(Cursor, Len(dirListing), Len(dirListing)).viewMax
                  = Len(dirListing) - 1
            /\ ups(Cursor, Len(dirListing)).lineNumber = 0
            /\ ups(Cursor, Len(dirListing)).viewMin = 0)
    /\ [][(Settled /\ KeyDown /\ lineNumber = Len(dirListing) - 1)
            => UNCHANGED <<modelVars, lineNumberStack, cmdVars>>]_vars
    /\ [][(Settled /\ KeyUp /\ lineNumber = 0)
            => UNCHANGED <<modelVars, lineNumberStack, cmdVars>>]_vars

\* C29 (foreign load results are ignored): the ids handed out by nextID are
\* pairwise distinct, so the two Models never share an id; a readDirMsg of
\* the second Model handled by the first one leaves every field of the
\* first Model unchanged and issues no command; and the listing of the
\* first Model changes only when one of its own readDir commands completes.
C29_ForeignIgnored ==
    /\ [](/\ id <= lastID
          /\ other.made => (other.id <= lastID /\ other.id /= id))
    /\ [][ReadDirOther => UNCHANGED <<modelVars, cmdVars>>]_vars
    /\ [][dirListing' /= dirListing => (ReadDirLatest \/ ReadDirStale)]_vars

\* The second Model has explored into another directory and its load was
\* handed to both Models: it shows that listing, while the first Model
\* still shows the listing its own command produced for its own directory.
C29_Witness ==
    /\ Running
    /\ other.made /\ other.cmd = <<>>
    /\ other.currentDir /= currentDir
    /\ other.dirListing = ReadDirMsg(other.currentDir).entries
    /\ fresh /\ Settled
    /\ dirListing = ReadDirMsg(currentDir).entries
    /\ dirListing /= other.dirListing

====
